---- MODULE Spec2Model ----
(***************************************************************************)
(* Sensor-mesh control plane (Contiki-NG / nullnet): one node under an     *)
(* arbitrary radio environment.  The node runs one of the firmware images  *)
(* of the repository, named by prog:                                       *)
(*   "CN"  src/computation-node.c   relay with a routing table             *)
(*   "CH"  src/unnamed/part_005     relay with a child list and cleanup    *)
(*   "BR"  src/unnamed/part_001     border router (root) with a child list *)
(*   "SN"  src/sensor-node.c        leaf sensor with a valve LED           *)
(*   "SH"  src/unnamed/part_003     leaf sensor with a child list          *)
(*   "CS"  src/src/computation-node.c  relay with timestamped readings     *)
(*   "BO"  src/unnamed/part_000     border router (root) with a route table *)
(* A packet is a sequence of bytes; C's msg[i] is B(msg, i).               *)
(***************************************************************************)
EXTENDS Integers, Sequences, FiniteSets, TLC

VARIABLES prog, parent_id, hop_to_root, routing_table, children, sensors,
          now, out, oplink, ev,
          leds,   \* leaf: the green LED that stands for the valve
          ret,    \* the value returned by the last direct function call
          hist,   \* every reading handed to add_reading so far, in order
          net,    \* SpecNet: parent_id and hop_to_root of every node; SpecLoop: the root
          air     \* SpecLoop: the transmissions not yet delivered, oldest first

vars == <<prog, parent_id, hop_to_root, routing_table, children, sensors,
          now, out, oplink, ev, leds, ret, hist, net, air>>

----------------------------------------------------------------------------
(* Program constants *)

MAX_SENSOR_NODES == 5
MAX_SENSOR_READINGS == 30
MAX_ROUTES == 10
MAX_CHILDREN == 10
CN_SLOPE_THRESHOLD == 3
CH_SLOPE_THRESHOLD == 5
CN_VALVE_DURATION == 60
CH_VALVE_DURATION == 600
CH_CLEANUP_SECONDS == 300
INACTIVE_THRESHOLD_SECONDS == 600
CN_NO_PARENT == 65535
CH_NO_PARENT == 255
ENERGY_BYTE == 3
BORDER_ROUTER_ID == 1
RELAY_NODE_ID == 2

(* NETSTACK_NETWORK.output(NULL): the broadcast destination *)
NULL_ADDR == 0 - 1

----------------------------------------------------------------------------
(* Bounds of the explored environment *)

MaxReadings == 3
MaxTicks == 4

----------------------------------------------------------------------------
(* Bytes and packets *)

U8(x) == x % 256

B(msg, i) == msg[i + 1]

(* A read of msg[i]; past the end of the packet the byte is whatever the   *)
(* radio buffer held (stale).                                              *)
Rd(msg, i, stale) == IF i < Len(msg) THEN msg[i + 1] ELSE stale

Tx(dst, bytes) == [dst |-> dst, bytes |-> bytes]

Roots == {"BR", "BO"}

node_id == IF prog \in Roots THEN BORDER_ROUTER_ID ELSE RELAY_NODE_ID

NoSelfCheck(src) == FALSE

FromSelf(src) == src = node_id

SLOPE_THRESHOLD == IF prog = "CN" THEN CN_SLOPE_THRESHOLD ELSE CH_SLOPE_THRESHOLD

VALVE_DURATION == IF prog = "CN" THEN CN_VALVE_DURATION ELSE CH_VALVE_DURATION

(* the images that keep parent_id in a uint16_t with 0xFFFF for none *)
WideParent == {"CN", "SN", "CS"}

NO_PARENT == IF prog \in WideParent THEN CN_NO_PARENT ELSE CH_NO_PARENT

----------------------------------------------------------------------------
(* Routing table (computation-node.c) *)

Route(d, nh, hc, t) == [dest_id |-> d, next_hop |-> nh, hop_count |-> hc, last_updated |-> t]

(* index of the first entry for dest d, 0 when there is none *)
RouteIndex(T, d) ==
  IF \E i \in 1..Len(T) : T[i].dest_id = d
  THEN CHOOSE i \in 1..Len(T) : T[i].dest_id = d /\ \A j \in 1..(i - 1) : T[j].dest_id # d
  ELSE 0

update_route_nosearch(T, d, nh, hc, t) ==
  IF Len(T) < MAX_ROUTES THEN Append(T, Route(d, nh, hc, t)) ELSE T

update_route_evict(T, d, nh, hc, t) ==
  LET i == RouteIndex(T, d) IN
  IF i # 0
  THEN IF hc < T[i].hop_count THEN [T EXCEPT ![i] = Route(d, nh, hc, t)] ELSE T
  ELSE IF Len(T) < MAX_ROUTES THEN Append(T, Route(d, nh, hc, t))
       ELSE [T EXCEPT ![Len(T)] = Route(d, nh, hc, t)]

update_route(T, d, nh, hc, t) ==
  LET i == RouteIndex(T, d) IN
  IF i # 0
  THEN IF hc < T[i].hop_count THEN [T EXCEPT ![i] = Route(d, nh, hc, t)] ELSE T
  ELSE IF Len(T) < MAX_ROUTES THEN Append(T, Route(d, nh, hc, t)) ELSE T

(* find_next_hop returns a uint8_t: parent_id (uint16_t) is truncated *)
find_next_hop(T, parent, target) ==
  LET i == RouteIndex(T, target) IN
  IF i # 0 THEN T[i].next_hop
  ELSE IF parent # CN_NO_PARENT THEN U8(parent)
  ELSE target

----------------------------------------------------------------------------
(* Child list (part_005, part_001) *)

InSeq(s, x) == \E i \in 1..Len(s) : s[i] = x

add_child_unbounded(C, id) == IF InSeq(C, id) THEN C ELSE Append(C, id)

add_child(C, id) ==
  IF InSeq(C, id) THEN C
  ELSE IF Len(C) < MAX_CHILDREN THEN Append(C, id) ELSE C

(* part_005: child list, then active direct-child sensor records, then parent_id *)
find_child(C, S, parent, target) ==
  IF InSeq(C, target) THEN target
  ELSE IF \E i \in 1..Len(S) : S[i].sensor_id = target /\ S[i].active /\ S[i].is_direct_child
       THEN target
       ELSE parent

(* part_001: child list or 0xFF *)
br_find_child(C, target) == IF InSeq(C, target) THEN target ELSE 255

----------------------------------------------------------------------------
(* Parent selection *)

BetterParent(hop_count, energy, my_hop) ==
  hop_count < my_hop \/ (hop_count = my_hop /\ energy > ENERGY_BYTE)

----------------------------------------------------------------------------
(* Sensor table (computation-node.c, part_005).  A record's count is the   *)
(* length of its readings; indices are 1-based and 0 stands for C's -1.    *)

Sensor(id, rd, lu, act, vo, vot, direct) ==
  [sensor_id |-> id, readings |-> rd, last_update |-> lu, active |-> act,
   valve_open |-> vo, valve_open_time |-> vot, is_direct_child |-> direct]

find_sensor_anystate(S, id) ==
  IF \E i \in 1..Len(S) : S[i].sensor_id = id
  THEN CHOOSE i \in 1..Len(S) : S[i].sensor_id = id /\ \A j \in 1..(i - 1) : S[j].sensor_id # id
  ELSE 0

find_sensor_none(S, id) == 0

find_sensor(S, id) ==
  IF \E i \in 1..Len(S) : S[i].sensor_id = id /\ S[i].active
  THEN CHOOSE i \in 1..Len(S) : /\ S[i].sensor_id = id /\ S[i].active
                                /\ \A j \in 1..(i - 1) : ~(S[j].sensor_id = id /\ S[j].active)
  ELSE 0

(* add_sensor: the table after the call and the index it returns *)
add_sensor(S, id, direct, t) ==
  IF \E i \in 1..Len(S) : ~S[i].active
  THEN LET i == CHOOSE k \in 1..Len(S) : ~S[k].active /\ \A j \in 1..(k - 1) : S[j].active
       IN [S |-> [S EXCEPT ![i] = Sensor(id, <<>>, t, TRUE, FALSE, 0, direct)], idx |-> i]
  ELSE IF Len(S) < MAX_SENSOR_NODES
       THEN [S |-> Append(S, Sensor(id, <<>>, t, TRUE, FALSE, 0, direct)), idx |-> Len(S) + 1]
       ELSE [S |-> S, idx |-> 0]

add_reading_overwrite_last(rec, value, t) ==
  LET kept == IF Len(rec.readings) = MAX_SENSOR_READINGS
              THEN SubSeq(rec.readings, 1, MAX_SENSOR_READINGS - 1)
              ELSE rec.readings
  IN [rec EXCEPT !.readings = Append(kept, value), !.last_update = t]

add_reading(rec, value, t) ==
  LET kept == IF Len(rec.readings) = MAX_SENSOR_READINGS THEN Tail(rec.readings)
              ELSE rec.readings
  IN [rec EXCEPT !.readings = Append(kept, value), !.last_update = t]

RECURSIVE SumY(_, _)
SumY(r, n) == IF n = 0 THEN 0 ELSE SumY(r, n - 1) + r[n]

RECURSIVE SumXY(_, _)
SumXY(r, n) == IF n = 0 THEN 0 ELSE SumXY(r, n - 1) + (n - 1) * r[n]

RECURSIVE SumX(_)
SumX(n) == IF n = 0 THEN 0 ELSE SumX(n - 1) + (n - 1)

RECURSIVE SumXX(_)
SumXX(n) == IF n = 0 THEN 0 ELSE SumXX(n - 1) + (n - 1) * (n - 1)

(* calculate_slope: the slope as the fraction num/den, both scaled by n    *)
(* (sum_xy - n*x_mean*y_mean = num/n, sum_xx - n*x_mean^2 = den/n).        *)
calculate_slope(r) ==
  LET n == Len(r)
      den == n * SumXX(n) - SumX(n) * SumX(n)
      num == n * SumXY(r, n) - SumX(n) * SumY(r, n)
  IN IF n < 2 THEN [num |-> 0, den |-> 1]
     ELSE IF den = 0 THEN [num |-> 0, den |-> 1]
     ELSE [num |-> num, den |-> den]

Abs(x) == IF x < 0 THEN 0 - x ELSE x

(* computation-node.c:273  fabs(slope) > SLOPE_THRESHOLD *)
CN_SlopeExceeds(sl) == Abs(sl.num) > CN_SLOPE_THRESHOLD * sl.den

(* part_005:271  slope > SLOPE_THRESHOLD *)
CH_SlopeExceeds(sl) == sl.num > CH_SLOPE_THRESHOLD * sl.den

DataValue(msg) == B(msg, 4) * 256 + B(msg, 5)

CmdMsg(sensor_id, command) == <<4, sensor_id, command, 0>>

(* computation-node.c send_command: unicast to the next hop, then broadcast *)
CN_send_command(T, parent, sensor_id, command) ==
  << Tx(find_next_hop(T, parent, sensor_id), CmdMsg(sensor_id, command)),
     Tx(NULL_ADDR, CmdMsg(sensor_id, command)) >>

(* part_005 send_command: unicast to find_child's answer unless it is 0xFF *)
CH_send_command(C, S, parent, sensor_id, command) ==
  LET child == find_child(C, S, parent, sensor_id) IN
  IF child # 255 THEN << Tx(child, CmdMsg(sensor_id, command)) >> ELSE << >>

(* part_005 forward_data: the packet with byte 3 overwritten, to parent_id *)
forward_data(parent, msg, treated) ==
  << Tx(parent, [msg EXCEPT ![4] = treated]) >>

----------------------------------------------------------------------------
(* receive_callback.  Each handler yields the node's state after the call,  *)
(* the packets it handed to NETSTACK_NETWORK.output (out) and the lines it *)
(* printed on the operator link (oplink).                                  *)

Same == [parent_id |-> parent_id, hop_to_root |-> hop_to_root,
         routing_table |-> routing_table, children |-> children,
         sensors |-> sensors, out |-> << >>, oplink |-> << >>]

CN_discovery_rebroadcast(T1, src, msg) ==
  [Same EXCEPT !.routing_table = T1, !.out = << Tx(NULL_ADDR, msg) >>]

(* computation-node.c:225-249 *)
CN_discovery(T1, src, msg) ==
  LET source_id == B(msg, 1)
      hop_count == B(msg, 2)
      energy    == B(msg, 3)
      T2 == update_route(T1, source_id, src, U8(hop_count + 1), now)
  IN IF BetterParent(hop_count, energy, hop_to_root)
     THEN [Same EXCEPT !.routing_table = T2, !.parent_id = source_id,
                       !.hop_to_root = U8(hop_count + 1)]
     ELSE [Same EXCEPT !.routing_table = T2]

CN_OpenAlways(rec, sl) == CN_SlopeExceeds(sl)

CN_ShouldOpen(rec, sl) == CN_SlopeExceeds(sl) /\ ~rec.valve_open

(* computation-node.c:250-285 *)
CN_data(T1, src, msg) ==
  LET source_id == B(msg, 1)
      value == DataValue(msg)
      T2 == update_route(T1, source_id, src, 1, now)
  IN IF Len(sensors) < MAX_SENSOR_NODES \/ find_sensor(sensors, source_id) # 0
     THEN LET found == find_sensor(sensors, source_id)
              added == add_sensor(sensors, source_id, FALSE, now)
              S1  == IF found = 0 THEN added.S ELSE sensors
              idx == IF found = 0 THEN added.idx ELSE found
              rec == add_reading(S1[idx], value, now)
              sl  == calculate_slope(rec.readings)
          IN IF Len(rec.readings) >= 2 /\ CN_ShouldOpen(rec, sl)
             THEN [Same EXCEPT !.routing_table = T2,
                     !.sensors = [S1 EXCEPT ![idx] = [rec EXCEPT !.valve_open = TRUE,
                                                                 !.valve_open_time = now]],
                     !.out = CN_send_command(T2, parent_id, source_id, 1)]
             ELSE [Same EXCEPT !.routing_table = T2, !.sensors = [S1 EXCEPT ![idx] = rec]]
     ELSE [Same EXCEPT !.routing_table = T2, !.out = << Tx(U8(parent_id), msg) >>]

(* computation-node.c:286-308; msg[1] and msg[2] are read without a length check *)
CN_command(T1, src, msg, stale) ==
  LET target_id == Rd(msg, 1, stale)
      next_hop  == find_next_hop(T1, parent_id, target_id)
  IN IF target_id = node_id THEN [Same EXCEPT !.routing_table = T1]
     ELSE IF next_hop # 255
          THEN [Same EXCEPT !.routing_table = T1, !.out = << Tx(next_hop, msg) >>]
          ELSE [Same EXCEPT !.routing_table = T1, !.out = << Tx(NULL_ADDR, msg) >>]

(* computation-node.c:208-315 *)
CN_receive(src, msg, stale) ==
  IF Len(msg) = 0 THEN Same
  ELSE IF FromSelf(src) THEN Same
  ELSE LET T1 == update_route(routing_table, src, src, 1, now)
           msg_type == B(msg, 0)
       IN CASE msg_type = 1 ->
                 IF Len(msg) >= 4 THEN CN_discovery(T1, src, msg)
                 ELSE [Same EXCEPT !.routing_table = T1]
            [] msg_type = 3 ->
                 IF Len(msg) >= 6 THEN CN_data(T1, src, msg)
                 ELSE [Same EXCEPT !.routing_table = T1]
            [] msg_type = 4 -> CN_command(T1, src, msg, stale)
            [] OTHER ->
                 IF parent_id # CN_NO_PARENT
                 THEN [Same EXCEPT !.routing_table = T1, !.out = << Tx(U8(parent_id), msg) >>]
                 ELSE [Same EXCEPT !.routing_table = T1]

CH_discovery_hop_only(src, msg) ==
  [Same EXCEPT !.hop_to_root = U8(B(msg, 2) + 1)]

(* part_005:234-255 *)
CH_discovery(src, msg) ==
  LET source_id == B(msg, 1)
      hop_count == B(msg, 2)
      energy    == B(msg, 3)
      adopt == BetterParent(hop_count, energy, hop_to_root)
      hop1  == IF adopt THEN U8(hop_count + 1) ELSE hop_to_root
      par1  == IF adopt THEN source_id ELSE parent_id
      ch1   == IF hop_count > hop1 THEN add_child(children, source_id) ELSE children
  IN [Same EXCEPT !.parent_id = par1, !.hop_to_root = hop1, !.children = ch1]

CH_ShouldOpen(rec, sl) == CH_SlopeExceeds(sl) /\ ~rec.valve_open

(* part_005:256-286 *)
CH_data(src, msg) ==
  LET source_id == B(msg, 1)
      value == DataValue(msg)
  IN IF Len(sensors) < MAX_SENSOR_NODES \/ find_sensor(sensors, source_id) # 0
     THEN LET found == find_sensor(sensors, source_id)
              added == add_sensor(sensors, source_id, src = source_id, now)
              S1  == IF found = 0 THEN added.S ELSE sensors
              idx == IF found = 0 THEN added.idx ELSE found
              rec == add_reading(S1[idx], value, now)
              S2  == [S1 EXCEPT ![idx] = rec]
              sl  == calculate_slope(rec.readings)
          IN IF Len(rec.readings) >= 2
             THEN IF CH_ShouldOpen(rec, sl)
                  THEN [Same EXCEPT
                          !.sensors = [S2 EXCEPT ![idx] = [rec EXCEPT !.valve_open = TRUE,
                                                                      !.valve_open_time = now]],
                          !.out = CH_send_command(children, S2, parent_id, source_id, 1)
                                    \o forward_data(parent_id, msg, 1)]
                  ELSE [Same EXCEPT !.sensors = S2, !.out = forward_data(parent_id, msg, 1)]
             ELSE [Same EXCEPT !.sensors = S2]
     ELSE IF parent_id # CH_NO_PARENT
          THEN [Same EXCEPT !.out = forward_data(parent_id, msg, 0)]
          ELSE Same

(* part_005:287-302; msg[1] is read without a length check *)
CH_command(src, msg, stale) ==
  LET target_id == Rd(msg, 1, stale)
      child == find_child(children, sensors, parent_id, target_id)
  IN IF target_id = node_id THEN Same
     ELSE IF child # 255 THEN [Same EXCEPT !.out = << Tx(child, msg) >>]
          ELSE [Same EXCEPT !.out = << Tx(NULL_ADDR, msg) >>]

(* part_005:216-306 *)
CH_receive(src, msg, stale) ==
  IF Len(msg) = 0 THEN Same
  ELSE IF FromSelf(src) THEN Same
  ELSE LET msg_type == B(msg, 0)
       IN CASE msg_type = 1 -> IF Len(msg) >= 4 THEN CH_discovery(src, msg) ELSE Same
            [] msg_type = 3 -> IF Len(msg) >= 6 THEN CH_data(src, msg) ELSE Same
            [] msg_type = 4 -> CH_command(src, msg, stale)
            [] OTHER -> Same

DataLine_value_as_id(sensor_id, value, t) ==
  [kind |-> "DATA", sensor_id |-> value, value |-> value, time |-> t]

DataLine(sensor_id, value, t) == [kind |-> "DATA", sensor_id |-> sensor_id, value |-> value, time |-> t]

(* part_001:172-233 *)
BR_receive(src, msg, stale) ==
  IF Len(msg) = 0 THEN Same
  ELSE IF FromSelf(src) THEN Same
  ELSE LET msg_type == B(msg, 0)
       IN CASE msg_type = 1 -> [Same EXCEPT !.children = add_child(children, src)]
            [] msg_type = 3 ->
                 IF Len(msg) >= 6
                 THEN [Same EXCEPT !.oplink = << DataLine(B(msg, 1), DataValue(msg), now) >>]
                 ELSE Same
            [] msg_type = 4 ->
                 IF Len(msg) >= 4 /\ B(msg, 1) # BORDER_ROUTER_ID
                 THEN LET child == br_find_child(children, B(msg, 1))
                      IN IF child # 255 THEN [Same EXCEPT !.out = << Tx(child, msg) >>]
                         ELSE [Same EXCEPT !.out = << Tx(NULL_ADDR, msg) >>]
                 ELSE Same
            [] OTHER -> Same

(* part_000 ("BO"): the root image that keeps a route table.  Lines of the *)
(* operator link are records; their kind is the text that starts the line. *)

(* part_000:458-485 *)
BO_update_route(T, dest_id, next_hop, hop_count, t) ==
  LET i == RouteIndex(T, dest_id)
  IN IF i # 0
     THEN IF hop_count < T[i].hop_count
          THEN [T EXCEPT ![i] = Route(dest_id, next_hop, hop_count, t)]
          ELSE T
     ELSE IF Len(T) < MAX_ROUTES
          THEN Append(T, Route(dest_id, next_hop, hop_count, t))
          ELSE T

(* part_000:487-497 *)
BO_find_next_hop(T, dest_id) ==
  LET i == RouteIndex(T, dest_id)
  IN IF i # 0 THEN T[i].next_hop ELSE dest_id

(* part_000:499-527: the packet goes to the next hop, and once more as a   *)
(* broadcast when the next hop is the sensor itself                        *)
BO_forward_command(T, sensor_id, command) ==
  LET next_hop == BO_find_next_hop(T, sensor_id)
  IN << Tx(next_hop, CmdMsg(sensor_id, command)) >>
       \o (IF next_hop = sensor_id
           THEN << Tx(NULL_ADDR, CmdMsg(sensor_id, command)) >>
           ELSE << >>)

(* part_000:541-549: three lines, the second one "DATA" and the bytes in hex *)
BO_DataLines(msg) ==
  << [kind |-> "Received data from", sensor_id |-> B(msg, 1), value |-> DataValue(msg)],
     [kind |-> "DATA", bytes |-> msg],
     [kind |-> "light", sensor_id |-> B(msg, 1), value |-> DataValue(msg)] >>

(* part_000:529-560 *)
BO_receive(src, msg) ==
  IF Len(msg) = 0 THEN Same
  ELSE IF FromSelf(src) THEN Same
  ELSE LET msg_type == B(msg, 0)
       IN IF msg_type = 3 /\ Len(msg) >= 6
          THEN [Same EXCEPT
                  !.oplink = BO_DataLines(msg),
                  !.routing_table = BO_update_route(routing_table, B(msg, 1), src, 1, now)]
          ELSE IF msg_type = 1 /\ Len(msg) >= 4
          THEN [Same EXCEPT
                  !.routing_table = BO_update_route(routing_table, B(msg, 1), src,
                                                    U8(B(msg, 2) + 1), now)]
          ELSE IF msg_type = 4 /\ Len(msg) >= 4
          THEN [Same EXCEPT !.out = BO_forward_command(routing_table, B(msg, 1), B(msg, 2))]
          ELSE Same

receive_callback(src, msg, stale) ==
  CASE prog = "CN" -> CN_receive(src, msg, stale)
    [] prog = "CH" -> CH_receive(src, msg, stale)
    [] prog = "BO" -> BO_receive(src, msg)
    [] OTHER       -> BR_receive(src, msg, stale)

----------------------------------------------------------------------------
(* Periodic processes *)

ValveDue(rec) == rec.valve_open /\ now - rec.valve_open_time >= VALVE_DURATION

send_command(sensor_id, command) ==
  IF prog = "CN" THEN CN_send_command(routing_table, parent_id, sensor_id, command)
  ELSE CH_send_command(children, sensors, parent_id, sensor_id, command)

(* the Close commands of one sweep over sensors[0..n-1], in loop order *)
RECURSIVE ValveOut(_)
ValveOut(n) ==
  IF n = 0 THEN << >>
  ELSE ValveOut(n - 1) \o (IF ValveDue(sensors[n]) THEN send_command(sensors[n].sensor_id, 0)
                           ELSE << >>)

(* valve_timer_process: computation-node.c:92-110, part_005:85-103 *)
valve_timer_sweep ==
  [i \in 1..Len(sensors) |->
     IF ValveDue(sensors[i]) THEN [sensors[i] EXCEPT !.valve_open = FALSE] ELSE sensors[i]]

(* cleanup_process: part_005:105-122 *)
cleanup_sweep ==
  [i \in 1..Len(sensors) |->
     IF sensors[i].active /\ now - sensors[i].last_update > CH_CLEANUP_SECONDS
     THEN [sensors[i] EXCEPT !.active = FALSE] ELSE sensors[i]]

(* send_discovery: computation-node.c:141-154, part_005:133-143, part_001:83-97 *)
send_discovery ==
  << Tx(NULL_ADDR, <<1, node_id, IF prog = "BR" THEN 0 ELSE hop_to_root, ENERGY_BYTE>>) >>

----------------------------------------------------------------------------
(* Packets of the environment *)

Discovery(s, h, e) == <<1, s, h, e>>
Data(s, v) == <<3, s, 0, 0, v \div 256, v % 256>>
Command(t, c) == <<4, t, c, 0>>

Event(op, src, msg) == [op |-> op, src |-> src, msg |-> msg]

IsData(msg) == Len(msg) >= 6 /\ B(msg, 0) = 3

(* the environment stops feeding a record once it holds MaxReadings readings *)
DataAllowed(msg) ==
  IF IsData(msg) /\ prog # "BR"
  THEN LET i == find_sensor(sensors, B(msg, 1))
       IN IF i = 0 THEN TRUE ELSE Len(sensors[i].readings) < MaxReadings
  ELSE TRUE

----------------------------------------------------------------------------
(* Actions *)

InitNode(p) ==
  /\ prog = p
  /\ parent_id = (IF p \in WideParent THEN CN_NO_PARENT ELSE CH_NO_PARENT)
  /\ hop_to_root = (IF p \in Roots THEN 0 ELSE 255)
  /\ routing_table = << >>
  /\ children = << >>
  /\ sensors = << >>
  /\ now = 0
  /\ out = << >>
  /\ oplink = << >>
  /\ ev = Event("init", 0, << >>)
  /\ leds = FALSE
  /\ air = << >>
  /\ net = << >>
  /\ ret = << >>
  /\ hist = << >>

Receive(src, msg, stale) ==
  /\ DataAllowed(msg)
  /\ \E r \in {receive_callback(src, msg, stale)} :
        /\ parent_id' = r.parent_id
        /\ hop_to_root' = r.hop_to_root
        /\ routing_table' = r.routing_table
        /\ children' = r.children
        /\ sensors' = r.sensors
        /\ out' = r.out
        /\ oplink' = r.oplink
  /\ ev' = Event("recv", src, msg)
  /\ UNCHANGED <<air, net, leds, ret, hist, prog, now>>

ValveTimer ==
  /\ prog \in {"CN", "CH"}
  /\ sensors' = valve_timer_sweep
  /\ out' = ValveOut(Len(sensors))
  /\ oplink' = << >>
  /\ ev' = Event("valve", 0, << >>)
  /\ UNCHANGED <<air, net, leds, ret, hist, prog, parent_id, hop_to_root, routing_table, children, now>>

Cleanup ==
  /\ prog = "CH"
  /\ now > 0 /\ now % CH_CLEANUP_SECONDS = 0
  /\ sensors' = cleanup_sweep
  /\ out' = << >>
  /\ oplink' = << >>
  /\ ev' = Event("cleanup", 0, << >>)
  /\ UNCHANGED <<air, net, leds, ret, hist, prog, parent_id, hop_to_root, routing_table, children, now>>

DiscoveryTimer ==
  /\ out' = send_discovery
  /\ oplink' = << >>
  /\ ev' = Event("discovery", 0, << >>)
  /\ UNCHANGED <<air, net, leds, ret, hist, prog, parent_id, hop_to_root, routing_table, children, sensors, now>>

(* the clock is sampled on a grid that meets both sweeps' thresholds exactly *)
(* the clock advances in steps that divide the timer periods *)
TickStep == IF prog = "CN" THEN CN_VALVE_DURATION ELSE CH_CLEANUP_SECONDS \div 2

MaxTime == MaxTicks * TickStep

(* valve_timer_process wakes every second: a due valve is swept before the *)
(* clock moves on                                                          *)
Tick(d) ==
  /\ now + d <= MaxTime
  /\ \A i \in 1..Len(sensors) : ~ValveDue(sensors[i])
  /\ now' = now + d
  /\ out' = << >>
  /\ oplink' = << >>
  /\ ev' = Event("tick", 0, << >>)
  /\ UNCHANGED <<air, net, leds, ret, hist, prog, parent_id, hop_to_root, routing_table, children, sensors>>

----------------------------------------------------------------------------
(* Spec: tree formation and command routing.  Every node hears Discovery   *)
(* from three neighbours (its own id among them), Data relayed for sensor  *)
(* 4, Commands, and malformed packets.                                     *)

Progs == {"CN", "CH", "BR"}
Ids == {1, 2, 3}
Hops == {0, 1, 255}
Energies == {ENERGY_BYTE, ENERGY_BYTE + 1}
Targets == {1, 2, 3, 4, 9}
StaleBytes == {2, 9}

(* only a Command shorter than two bytes makes the relay read past the packet *)
StaleFor(msg) == IF Len(msg) = 1 /\ B(msg, 0) = 4 THEN StaleBytes ELSE {0}

TopoPackets ==
  {Discovery(s, h, e) : s \in Ids, h \in Hops, e \in Energies}

TopoDeliveries ==
  {<<m[2], m>> : m \in TopoPackets}
    \cup {<<s, Data(4, 10)>> : s \in {1, 3}}
    \cup {<<s, Command(t, 1)>> : s \in {1, 3}, t \in Targets}
    \cup {<<2, Command(3, 1)>>, <<1, Command(3, 1)>>}
    \cup {<<3, << >> >>, <<3, <<1, 3>> >>, <<3, <<3, 3, 0>> >>, <<3, <<4>> >>, <<3, <<9, 9>> >>}

Init == \E p \in Progs : InitNode(p)

Next ==
  \/ \E d \in TopoDeliveries : \E stale \in StaleFor(d[2]) : Receive(d[1], d[2], stale)
  \/ DiscoveryTimer

Spec == Init /\ [][Next]_vars

----------------------------------------------------------------------------
(* SpecData: aggregation, trend detection and the valve and cleanup        *)
(* sweeps.  A relay hears the root's Discovery while it starts up, then    *)
(* Data of sensor 3 (direct) and of sensor 4 (relayed by 3), while the     *)
(* clock advances.                                                         *)

Values == {10, 20}

DataDeliveries ==
  {<<1, Discovery(1, 0, ENERGY_BYTE)>>, <<3, Data(4, 10)>>}
    \cup {<<3, Data(3, v)>> : v \in Values}

InitData == \E p \in {"CN", "CH"} : InitNode(p)

NextData ==
  \/ \E d \in DataDeliveries : (IsData(d[2]) \/ now = 0) /\ Receive(d[1], d[2], 0)
  \/ ValveTimer
  \/ Cleanup
  \/ Tick(TickStep)

SpecData == InitData /\ [][NextData]_vars

----------------------------------------------------------------------------
(* SpecRoutes: update_route alone, from a table that already holds routes  *)
(* to eight neighbours heard once each.                                    *)

HeardNeighbours(k) == [i \in 1..k |-> Route(10 + i, 10 + i, 1, 0)]

RouteDests == {11, 19, 20, 21}
RouteHops == {0, 1}

InitRoutes ==
  /\ prog = "CN"
  /\ parent_id = CN_NO_PARENT
  /\ hop_to_root = 255
  /\ routing_table = HeardNeighbours(MAX_ROUTES - 2)
  /\ children = << >>
  /\ sensors = << >>
  /\ now = 1
  /\ out = << >>
  /\ oplink = << >>
  /\ ev = Event("init", 0, << >>)
  /\ leds = FALSE
  /\ air = << >>
  /\ net = << >>
  /\ ret = << >>
  /\ hist = << >>

UpdateRoute(d, nh, hc) ==
  /\ routing_table' = update_route(routing_table, d, nh, hc, now)
  /\ out' = << >>
  /\ oplink' = << >>
  /\ ev' = Event("update_route", nh, <<d, nh, hc>>)
  /\ UNCHANGED <<air, net, leds, ret, hist, prog, parent_id, hop_to_root, children, sensors, now>>

NextRoutes == \E d \in RouteDests, nh \in {1, 3}, hc \in RouteHops : UpdateRoute(d, nh, hc)

SpecRoutes == InitRoutes /\ [][NextRoutes]_vars

----------------------------------------------------------------------------
(* src/src/computation-node.c: records carry the timestamp of each reading *)

CS_Sensor(id, rd, ts, lu, act) ==
  [sensor_id |-> id, readings |-> rd, timestamps |-> ts, last_update |-> lu,
   active |-> act]

CS_add_reading(rec, value, timestamp, t) ==
  LET full == Len(rec.readings) = MAX_SENSOR_READINGS
      keptR == IF full THEN Tail(rec.readings) ELSE rec.readings
      keptT == IF full THEN Tail(rec.timestamps) ELSE rec.timestamps
  IN [rec EXCEPT !.readings = Append(keptR, value),
                 !.timestamps = Append(keptT, timestamp),
                 !.last_update = t]

RECURSIVE SumSeq(_, _)
SumSeq(x, n) == IF n = 0 THEN 0 ELSE SumSeq(x, n - 1) + x[n]

RECURSIVE SumProd(_, _, _)
SumProd(x, y, n) == IF n = 0 THEN 0 ELSE SumProd(x, y, n - 1) + x[n] * y[n]

(* calculate_slope of src/src: x is the timestamp of the reading *)
CS_calculate_slope(r, ts) ==
  LET n == Len(r)
      den == n * SumProd(ts, ts, n) - SumSeq(ts, n) * SumSeq(ts, n)
      num == n * SumProd(ts, r, n) - SumSeq(ts, n) * SumSeq(r, n)
  IN IF n < 2 THEN [num |-> 0, den |-> 1]
     ELSE IF den = 0 THEN [num |-> 0, den |-> 1]
     ELSE [num |-> num, den |-> den]

----------------------------------------------------------------------------
(* SpecBuffer: add_reading and calculate_slope called on one record, from  *)
(* an empty buffer and from one that already holds 28 readings.            *)

MaxAppends == 4

BufferProgs == {"CN", "CH", "CS"}
BufferValues == {10, 20, 30, 40}
SamplePeriods == {1, 60}

PrefillLen == MAX_SENSOR_READINGS - 2
PrefillReadings == [i \in 1..PrefillLen |-> 100 + i]
PrefillTimestamps == [i \in 1..PrefillLen |-> 60 * (i - 1)]

InitBuffer ==
  /\ prog \in BufferProgs
  /\ parent_id = NO_PARENT
  /\ hop_to_root = 255
  /\ routing_table = << >>
  /\ children = << >>
  /\ hist \in {<< >>, PrefillReadings}
  /\ sensors = << IF prog = "CS"
                  THEN CS_Sensor(3, hist, SubSeq(PrefillTimestamps, 1, Len(hist)), 0, TRUE)
                  ELSE Sensor(3, hist, 0, TRUE, FALSE, 0, TRUE) >>
  /\ now = 0
  /\ out = << >>
  /\ oplink = << >>
  /\ ev = Event("init", 0, << >>)
  /\ leds = FALSE
  /\ air = << >>
  /\ net = << >>
  /\ ret = << >>

LastTimestamp(rec) ==
  IF Len(rec.timestamps) = 0 THEN 0 ELSE rec.timestamps[Len(rec.timestamps)]

(* add_reading(0, value) / add_reading(0, value, timestamp) *)
AddReading(value, period) ==
  /\ IF Len(hist) < PrefillLen THEN Len(hist) < MaxAppends
     ELSE Len(hist) < PrefillLen + MaxAppends
  /\ sensors' = [sensors EXCEPT ![1] =
                   IF prog = "CS"
                   THEN CS_add_reading(@, value, LastTimestamp(@) + period, now)
                   ELSE add_reading(@, value, now)]
  /\ hist' = Append(hist, value)
  /\ ret' = << >>
  /\ out' = << >>
  /\ oplink' = << >>
  /\ ev' = Event("add_reading", 0, <<value>>)
  /\ UNCHANGED <<air, net, leds, prog, parent_id, hop_to_root, routing_table, children, now>>

(* calculate_slope(0) *)
CalcSlope ==
  /\ ret' = IF prog = "CS"
            THEN CS_calculate_slope(sensors[1].readings, sensors[1].timestamps)
            ELSE calculate_slope(sensors[1].readings)
  /\ out' = << >>
  /\ oplink' = << >>
  /\ ev' = Event("calculate_slope", 0, << >>)
  /\ UNCHANGED <<air, net, leds, hist, prog, parent_id, hop_to_root, routing_table, children,
                 sensors, now>>

NextBuffer ==
  \/ \E v \in BufferValues :
        \E p \in (IF prog = "CS" THEN SamplePeriods ELSE {1}) : AddReading(v, p)
  \/ CalcSlope

SpecBuffer == InitBuffer /\ [][NextBuffer]_vars

----------------------------------------------------------------------------
(* SpecTable: the sensor table at and around capacity.  The relay already  *)
(* holds records of four sensors heard once; it then hears the root, Data  *)
(* of two further sensors relayed by node 3 (with the "treated" byte clear *)
(* or set), and its cleanup timer.                                         *)

HeardSensors(k) == [i \in 1..k |-> Sensor(10 + i, <<10>>, 0, TRUE, FALSE, 0, FALSE)]

NewSensors == {15, 16}
TreatedBytes == {0, 1}

TableDeliveries ==
  {<<1, Discovery(1, 0, ENERGY_BYTE)>>}
    \cup {<<3, <<3, s, 0, f, 0, 10>> >> : s \in NewSensors, f \in TreatedBytes}

InitTable ==
  /\ prog \in {"CN", "CH"}
  /\ parent_id = NO_PARENT
  /\ hop_to_root = 255
  /\ routing_table = << >>
  /\ children = << >>
  /\ sensors = HeardSensors(MAX_SENSOR_NODES - 1)
  /\ now = 0
  /\ out = << >>
  /\ oplink = << >>
  /\ ev = Event("init", 0, << >>)
  /\ leds = FALSE
  /\ air = << >>
  /\ net = << >>
  /\ ret = << >>
  /\ hist = << >>

NextTable ==
  \/ \E d \in TableDeliveries : (IsData(d[2]) \/ now = 0) /\ Receive(d[1], d[2], 0)
  \/ Cleanup
  \/ Tick(TickStep)

SpecTable == InitTable /\ [][NextTable]_vars

----------------------------------------------------------------------------
(* Leaf images: sensor-node.c ("SN") and part_003 ("SH").  The green LED   *)
(* is the actuator (part_003 keeps valve_open equal to it).  The node's    *)
(* own energy byte, energy_metric >> 8, is read from the energest counters *)
(* at each call and is an input of the call.                               *)

LeafSame == [parent_id |-> parent_id, hop_to_root |-> hop_to_root,
             children |-> children, out |-> << >>, leds |-> leds]

(* sensor-node.c:180-181, part_003:722-723 *)
LeafBetterParent(hop_count, energy, my_energy) ==
  hop_count < hop_to_root \/ (hop_count = hop_to_root /\ energy > my_energy)

(* sensor-node.c:163-193 *)
SN_discovery(msg, my_energy) ==
  IF LeafBetterParent(B(msg, 2), B(msg, 3), my_energy)
  THEN [LeafSame EXCEPT !.parent_id = B(msg, 1), !.hop_to_root = U8(B(msg, 2) + 1)]
  ELSE LeafSame

SN_command_ignored(msg) == LeafSame

(* sensor-node.c:194-211 *)
SN_command(msg) ==
  LET target_id == B(msg, 1)
      command   == B(msg, 2)
  IN IF target_id = node_id \/ target_id = 0 \/ target_id = 255
     THEN [LeafSame EXCEPT !.leds = (command = 1)]
     ELSE LeafSame

(* sensor-node.c:212-225: at most sizeof(fwd_buf) = 32 bytes are forwarded *)
SN_forward(msg) ==
  IF parent_id # CN_NO_PARENT
  THEN [LeafSame EXCEPT
          !.out = << Tx(U8(parent_id),
                        SubSeq(msg, 1, IF Len(msg) > 32 THEN 32 ELSE Len(msg))) >>]
  ELSE LeafSame

(* sensor-node.c:153-230 *)
SN_receive(src, msg, my_energy) ==
  IF Len(msg) = 0 \/ FromSelf(src) THEN LeafSame
  ELSE CASE B(msg, 0) = 1 -> IF Len(msg) >= 4 THEN SN_discovery(msg, my_energy) ELSE LeafSame
         [] B(msg, 0) = 4 -> IF Len(msg) >= 4 THEN SN_command(msg) ELSE LeafSame
         [] B(msg, 0) = 3 -> SN_forward(msg)
         [] OTHER -> LeafSame

(* part_003:590-602 *)
SH_find_child(C, target) == IF InSeq(C, target) THEN target ELSE 255

(* part_003:703-744: the child test reads hop_to_root after the adoption *)
SH_discovery(msg, my_energy) ==
  LET source_id == B(msg, 1)
      hop_count == B(msg, 2)
      adopt == LeafBetterParent(hop_count, B(msg, 3), my_energy)
      hop1  == IF adopt THEN U8(hop_count + 1) ELSE hop_to_root
  IN [LeafSame EXCEPT
        !.parent_id = IF adopt THEN source_id ELSE parent_id,
        !.hop_to_root = hop1,
        !.children = IF hop_count > hop1 THEN add_child(children, source_id) ELSE children]

(* part_003:763-802, forward_command 662-671 (packets of at most 4 bytes) *)
SH_command(msg) ==
  LET target_id == B(msg, 1)
      command   == B(msg, 2)
      child     == SH_find_child(children, target_id)
  IN IF target_id = node_id
     THEN [LeafSame EXCEPT !.leds = (command = 1)]
     ELSE IF child # 255
          THEN [LeafSame EXCEPT !.out = << Tx(child, msg) >>]
          ELSE LeafSame

(* part_003:745-762, forward_data 651-660 (packets of at most 6 bytes) *)
SH_forward(msg) ==
  IF parent_id # CH_NO_PARENT
  THEN [LeafSame EXCEPT !.out = << Tx(parent_id, msg) >>]
  ELSE LeafSame

(* part_003:673-806 *)
SH_receive(src, msg, my_energy) ==
  IF Len(msg) = 0 \/ FromSelf(src) THEN LeafSame
  ELSE CASE B(msg, 0) = 1 -> IF Len(msg) >= 4 THEN SH_discovery(msg, my_energy) ELSE LeafSame
         [] B(msg, 0) = 3 -> IF Len(msg) >= 6 THEN SH_forward(msg) ELSE LeafSame
         [] B(msg, 0) = 4 -> IF Len(msg) >= 4 THEN SH_command(msg) ELSE LeafSame
         [] OTHER -> LeafSame

leaf_receive_callback(src, msg, my_energy) ==
  IF prog = "SN" THEN SN_receive(src, msg, my_energy) ELSE SH_receive(src, msg, my_energy)

(* send_data: sensor-node.c:136-151, part_003:636-649 *)
send_data(value) ==
  << Tx(U8(parent_id), <<3, node_id, U8(parent_id), 0, value \div 256, value % 256>>) >>

(* data_process: sensor-node.c:97-107, part_003:556-570.  Both images      *)
(* compare parent_id with 0xFFFF; in part_003 parent_id is a uint8_t.      *)
data_process_expiry(value) ==
  IF parent_id # CN_NO_PARENT THEN send_data(value) ELSE << >>

(* send_discovery: sensor-node.c:112-134, part_003:611-631 *)
leaf_send_discovery(my_energy) ==
  << Tx(NULL_ADDR, <<1, node_id, hop_to_root, my_energy>>) >>

----------------------------------------------------------------------------
(* SpecLeaf: a leaf hears Discovery, Data to relay and Commands, and its   *)
(* two timers expire at any time.                                          *)

Leaves == {"SN", "SH"}
OwnEnergies == {ENERGY_BYTE, 254}
LeafEnergies == {ENERGY_BYTE, ENERGY_BYTE + 1, 255}
LeafTargets == {0, 2, 3, 4, 255}
LeafCommands == {0, 1}
LeafValues == {400, 999}

LeafDeliveries ==
  {<<s, Discovery(s, h, e)>> : s \in {1, 2, 3}, h \in {0, 1, 2, 255}, e \in LeafEnergies}
    \cup {<<3, Data(3, 400)>>}
    \cup {<<s, Command(t, c)>> : s \in {1, 2}, t \in LeafTargets, c \in LeafCommands}
    \cup {<<1, << >> >>, <<1, <<4, 2, 1>> >>, <<1, <<9, 2, 1, 0>> >>}

InitLeaf == \E p \in Leaves : InitNode(p)

LeafReceive(src, msg, my_energy) ==
  /\ prog \in Leaves
  /\ \E r \in {leaf_receive_callback(src, msg, my_energy)} :
        /\ parent_id' = r.parent_id
        /\ hop_to_root' = r.hop_to_root
        /\ children' = r.children
        /\ out' = r.out
        /\ leds' = r.leds
  /\ ev' = Event("recv", src, msg)
  /\ UNCHANGED <<air, net, ret, hist, prog, routing_table, sensors, now, oplink>>

DataTimer(value) ==
  /\ prog \in Leaves
  /\ out' = data_process_expiry(value)
  /\ ev' = Event("data_timer", 0, << >>)
  /\ UNCHANGED <<air, net, leds, ret, hist, prog, parent_id, hop_to_root, routing_table, children,
                 sensors, now, oplink>>

LeafDiscoveryTimer(my_energy) ==
  /\ prog \in Leaves
  /\ out' = leaf_send_discovery(my_energy)
  /\ ev' = Event("discovery", 0, << >>)
  /\ UNCHANGED <<air, net, leds, ret, hist, prog, parent_id, hop_to_root, routing_table, children,
                 sensors, now, oplink>>

NextLeaf ==
  \/ \E d \in LeafDeliveries : \E e \in OwnEnergies : LeafReceive(d[1], d[2], e)
  \/ \E v \in LeafValues : DataTimer(v)
  \/ \E e \in OwnEnergies : LeafDiscoveryTimer(e)

SpecLeaf == InitLeaf /\ [][NextLeaf]_vars

----------------------------------------------------------------------------
(* The operator link of the root (part_001, part_000).  A line is the      *)
(* sequence of its characters.                                             *)

COMMAND_KEYWORD == <<"C", "O", "M", "M", "A", "N", "D">>

DigitChars == <<"0", "1", "2", "3", "4", "5", "6", "7", "8", "9">>

IsDigit(c) == \E d \in 1..10 : DigitChars[d] = c

DigitValue(c) == (CHOOSE d \in 1..10 : DigitChars[d] = c) - 1

(* the value of the longest prefix of s made of digits, after acc *)
RECURSIVE DigitsValue(_, _)
DigitsValue(s, acc) ==
  IF s = << >> \/ ~IsDigit(Head(s)) THEN acc
  ELSE DigitsValue(Tail(s), acc * 10 + DigitValue(Head(s)))

(* atoi: optional sign, then digits; anything else ends the number *)
atoi(tok) ==
  IF tok = << >> THEN 0
  ELSE IF Head(tok) = "-" THEN 0 - DigitsValue(Tail(tok), 0)
  ELSE IF Head(tok) = "+" THEN DigitsValue(Tail(tok), 0)
  ELSE DigitsValue(tok, 0)

RECURSIVE SkipSpaces(_)
SkipSpaces(s) == IF s # << >> /\ Head(s) = " " THEN SkipSpaces(Tail(s)) ELSE s

RECURSIVE TokenLen(_)
TokenLen(s) == IF s = << >> \/ Head(s) = " " THEN 0 ELSE 1 + TokenLen(Tail(s))

(* the tokens successive strtok(.., " ") calls return *)
RECURSIVE strtok(_)
strtok(line) ==
  LET s == SkipSpaces(line)
      n == TokenLen(s)
  IN IF s = << >> THEN << >>
     ELSE << SubSeq(s, 1, n) >> \o strtok(SubSeq(s, n + 1, Len(s)))

(* part_001:132-170 *)
process_serial_input(line) ==
  LET tok == strtok(line)
  IN IF Len(tok) >= 1 /\ tok[1] = COMMAND_KEYWORD
     THEN IF Len(tok) < 2 THEN << >>
          ELSE IF Len(tok) < 3 THEN << >>
          ELSE LET sensor_id == U8(atoi(tok[2]))
                   command   == U8(atoi(tok[3]))
                   child     == br_find_child(children, sensor_id)
               IN IF child = 255
                  THEN << Tx(NULL_ADDR, CmdMsg(sensor_id, command)) >>
                  ELSE << Tx(child, CmdMsg(sensor_id, command)) >>
     ELSE << >>

(* part_000:411-440: strncmp(message, "COMMAND", 7) looks at the first 7   *)
(* characters of the line only                                             *)
serial_process(line) ==
  LET tok == strtok(line)
  IN IF Len(line) >= 7 /\ SubSeq(line, 1, 7) = COMMAND_KEYWORD
     THEN IF Len(tok) >= 3
          THEN BO_forward_command(routing_table, U8(atoi(tok[2])), U8(atoi(tok[3])))
          ELSE << >>
     ELSE << >>

serial_line(line) ==
  IF prog = "BO" THEN serial_process(line) ELSE process_serial_input(line)

SerialInput(line) ==
  /\ prog \in Roots
  /\ out' = serial_line(line)
  /\ oplink' = << >>
  /\ ev' = Event("serial", 0, line)
  /\ UNCHANGED <<air, net, leds, ret, hist, prog, parent_id, hop_to_root, routing_table, children,
                 sensors, now>>

----------------------------------------------------------------------------
(* SpecRoot: the root hears its neighbours 2 and 3 (Discovery, Data of     *)
(* sensors 3 and 4, Commands, short and unknown packets) and reads lines   *)
(* from the operator.                                                      *)

Keywords == {COMMAND_KEYWORD, COMMAND_KEYWORD \o <<"X">>, <<"D", "A", "T", "A">>}
Leads == {<< >>, <<" ">>}
IdTokens == {<<"3">>, <<"x">>}
CommandTokens == {<<"1">>, <<"0">>, <<"o", "n">>}
DurationTokens == {<<"6", "0">>, <<"x">>}

Fields ==
  {<< >>}
    \cup {<<i>> : i \in IdTokens}
    \cup {<<i, c>> : i \in IdTokens, c \in CommandTokens}
    \cup {<<i, c, d>> : i \in IdTokens, c \in CommandTokens, d \in DurationTokens}

RECURSIVE Join(_)
Join(fields) == IF fields = << >> THEN << >> ELSE <<" ">> \o Head(fields) \o Join(Tail(fields))

OperatorLines == {l \o k \o Join(f) : l \in Leads, k \in Keywords, f \in Fields}

RootDeliveries ==
  {<<s, Discovery(s, h, ENERGY_BYTE)>> : s \in {1, 2, 3}, h \in {0, 1, 255}}
    \cup {<<3, Data(4, 10)>>, <<3, Data(3, 20)>>, <<1, Data(4, 10)>>}
    \cup {<<2, Command(t, 1)>> : t \in {1, 3, 4}}
    \cup {<<3, << >> >>, <<3, <<1, 3>> >>, <<3, <<3, 3, 0>> >>, <<3, <<4>> >>, <<3, <<9, 9>> >>}

InitRoot == \E p \in Roots : InitNode(p)

NextRoot ==
  \/ \E d \in RootDeliveries : Receive(d[1], d[2], 0)
  \/ \E line \in OperatorLines : SerialInput(line)
  \/ DiscoveryTimer

SpecRoot == InitRoot /\ [][NextRoot]_vars

----------------------------------------------------------------------------
(* SpecNet: a network of one root (node 1) and non-root nodes that all run *)
(* the parent selection of receive_callback.  A Discovery broadcast by s   *)
(* carries s's current hop and energy byte; each neighbour may or may not  *)
(* hear it (loss), in any order.  Energy bytes change with the energest    *)
(* counters and are inputs of each step.                                   *)

NumNodes == 4
MaxNetHop == 3

NetNodes == 1..NumNodes
NetRoot == BORDER_ROUTER_ID
NetEnergies == {ENERGY_BYTE, ENERGY_BYTE + 1}

NetNode(p, h) == [parent_id |-> p, hop_to_root |-> h]

(* computation-node.c:236-243, part_003:722-731, sensor-node.c:180-187 *)
net_discovery(me, source_id, hop_count, energy, my_energy) ==
  IF hop_count < me.hop_to_root \/ (hop_count = me.hop_to_root /\ energy > my_energy)
  THEN NetNode(source_id, U8(hop_count + 1))
  ELSE me

InitNetwork ==
  /\ prog = "SH"
  /\ parent_id = CH_NO_PARENT
  /\ hop_to_root = 255
  /\ routing_table = << >>
  /\ children = << >>
  /\ sensors = << >>
  /\ now = 0
  /\ out = << >>
  /\ oplink = << >>
  /\ ev = Event("init", 0, << >>)
  /\ leds = FALSE
  /\ air = << >>
  /\ ret = << >>
  /\ hist = << >>
  /\ net = [n \in NetNodes |-> IF n = NetRoot THEN NetNode(CH_NO_PARENT, 0)
                                ELSE NetNode(CH_NO_PARENT, 255)]

(* node r hears the Discovery node s broadcasts now *)
Hear(r, s, energy, my_energy) ==
  /\ r # NetRoot /\ r # s
  /\ net[s].hop_to_root \in (0..MaxNetHop) \cup {255}
  /\ net' = [net EXCEPT ![r] = net_discovery(net[r], s, net[s].hop_to_root, energy, my_energy)]
  /\ ev' = Event("hear", s, Discovery(s, net[s].hop_to_root, energy))
  /\ UNCHANGED <<air, leds, ret, hist, prog, parent_id, hop_to_root, routing_table, children,
                 sensors, now, out, oplink>>

NextNet ==
  \E r \in NetNodes, s \in NetNodes : \E e \in NetEnergies, my \in NetEnergies : Hear(r, s, e, my)

SpecNet == InitNetwork /\ [][NextNet]_vars

----------------------------------------------------------------------------
(* SpecChildren: add_child alone, from a child list that already holds     *)
(* seven neighbours heard once each.                                       *)

HeardChildren(k) == [i \in 1..k |-> 10 + i]

ChildIds == {11, 18, 19, 20, 21, 22}

InitChildren ==
  /\ prog \in {"CH", "BR"}
  /\ parent_id = CH_NO_PARENT
  /\ hop_to_root = (IF prog = "BR" THEN 0 ELSE 255)
  /\ routing_table = << >>
  /\ children = HeardChildren(MAX_CHILDREN - 3)
  /\ sensors = << >>
  /\ now = 0
  /\ out = << >>
  /\ oplink = << >>
  /\ ev = Event("init", 0, << >>)
  /\ leds = FALSE
  /\ air = << >>
  /\ net = << >>
  /\ ret = << >>
  /\ hist = << >>

AddChild(id) ==
  /\ children' = add_child(children, id)
  /\ out' = << >>
  /\ oplink' = << >>
  /\ ev' = Event("add_child", 0, <<id>>)
  /\ UNCHANGED <<air, net, leds, ret, hist, prog, parent_id, hop_to_root, routing_table, sensors, now>>

NextChildren == \E id \in ChildIds : AddChild(id)

SpecChildren == InitChildren /\ [][NextChildren]_vars

----------------------------------------------------------------------------
(* Vocabulary of the properties *)

Received == ev.op = "recv"

IsDiscovery(msg) == Len(msg) >= 4 /\ B(msg, 0) = 1

IsCommand(msg) == Len(msg) >= 4 /\ B(msg, 0) = 4

Relay == prog \in {"CN", "CH"}

HasParent == parent_id # NO_PARENT

HasRoute(T, t) == RouteIndex(T, t) # 0

(* a direct child: a member of the child list, or (part_005) the source of *)
(* an active record whose Data came straight from the sensor               *)
IsChild(t) ==
  \/ InSeq(children, t)
  \/ \E i \in 1..Len(sensors) :
        sensors[i].sensor_id = t /\ sensors[i].active /\ sensors[i].is_direct_child

Sent(o, dst, bytes) == \E k \in 1..Len(o) : o[k] = Tx(dst, bytes)

----------------------------------------------------------------------------
(* C1: across every step of a non-root node, hop_to_root never increases.  *)
(* Refuted: a Discovery advertising the node's own hop with a larger       *)
(* energy byte is adopted and hop_to_root becomes that hop + 1.            *)
C1_HopNeverIncreases == [][Relay => hop_to_root' <= hop_to_root]_vars

(* C2: a packet whose link source is the receiver's own id changes neither *)
(* parent/hop, route table, child list nor sensor records, transmits       *)
(* nothing and prints nothing on the operator link.                        *)
C2_SelfFiltered ==
  [][(ev'.op = "recv" /\ ev'.src = node_id) =>
       /\ UNCHANGED <<parent_id, hop_to_root, routing_table, children, sensors>>
       /\ out' = << >>
       /\ oplink' = << >>]_vars

(* C2 witness: a relay that has a parent, a route and a sensor record has  *)
(* just been handed a Discovery carrying its own link address.             *)
C2_Witness ==
  /\ Received /\ ev.src = node_id /\ IsDiscovery(ev.msg)
  /\ prog = "CN" /\ HasParent /\ Len(routing_table) >= 2 /\ Len(sensors) >= 1

(* the next hop the priority order of resolve_next_hop prescribes, looked   *)
(* up in route table T                                                     *)
PrescribedHop(T, t) ==
  IF IsChild(t) THEN t
  ELSE IF HasRoute(T, t) THEN T[RouteIndex(T, t)].next_hop
  ELSE IF HasParent THEN U8(parent_id)
  ELSE NULL_ADDR

(* C3: a relay sends a Command for another node to exactly one next hop:  *)
(* the target if it is a direct child, else the route's next hop, else the *)
(* parent, else Broadcast.                                                 *)
C3_NextHopPriority ==
  [][(Relay /\ ev'.op = "recv" /\ ev'.src # node_id /\ IsCommand(ev'.msg)
        /\ B(ev'.msg, 1) # node_id) =>
       out' = << Tx(PrescribedHop(routing_table', B(ev'.msg, 1)), ev'.msg) >>]_vars

(* C4: a Command for another node whose target is neither child nor routed *)
(* at a relay without parent is broadcast.                                 *)
C4_UnroutableIsBroadcast ==
  [][(Relay /\ ev'.op = "recv" /\ ev'.src # node_id /\ IsCommand(ev'.msg)
        /\ B(ev'.msg, 1) # node_id
        /\ ~IsChild(B(ev'.msg, 1)) /\ ~HasRoute(routing_table', B(ev'.msg, 1))
        /\ ~HasParent) =>
       out' = << Tx(NULL_ADDR, ev'.msg) >>]_vars

(* C9: the route table never holds two entries for one dest_id.            *)
C9_OneEntryPerDest ==
  \A i, j \in 1..Len(routing_table) :
     routing_table[i].dest_id = routing_table[j].dest_id => i = j

(* C9 witness: three destinations are routed and the entry of one of them  *)
(* has been rewritten in place by a later update.                          *)
C9_Witness ==
  /\ Len(routing_table) >= 3
  /\ \E i \in 1..Len(routing_table) : routing_table[i].hop_count = 0

(* C10: within a Discovery step, after the neighbour's own route is noted, *)
(* the entry of the advertised source is rewritten only if advertised hop  *)
(* + 1 is strictly smaller than the stored hop_count, and a written entry  *)
(* records advertised hop + 1.                                             *)
C10_ReplaceOnlyIfBetter ==
  [][(prog = "CN" /\ ev'.op = "recv" /\ ev'.src # node_id /\ IsDiscovery(ev'.msg)) =>
       LET T1 == update_route(routing_table, ev'.src, ev'.src, 1, now)
           d  == B(ev'.msg, 1)
           h  == B(ev'.msg, 2)
           i  == RouteIndex(T1, d)
       IN IF i # 0
          THEN routing_table'[i] =
                 (IF h + 1 < T1[i].hop_count THEN Route(d, ev'.src, h + 1, now) ELSE T1[i])
          ELSE routing_table' = Append(T1, Route(d, ev'.src, h + 1, now))]_vars

----------------------------------------------------------------------------
(* Valve properties (SpecData) *)

SensorIds == {3, 4}

OpenSent(o, s) == \E k \in 1..Len(o) : o[k].bytes = CmdMsg(s, 1)

CloseSent(o, s) == \E k \in 1..Len(o) : o[k].bytes = CmdMsg(s, 0)

Steep(r) == Abs(calculate_slope(r).num) > SLOPE_THRESHOLD * calculate_slope(r).den

(* a record of sensor s whose valve the relay opened with an Open it did   *)
(* transmit (computation-node.c always transmits; part_005 transmits to a  *)
(* direct child)                                                           *)
OpenPending(S, s) ==
  \E i \in 1..Len(S) :
     S[i].sensor_id = s /\ S[i].valve_open /\ (prog = "CN" \/ S[i].is_direct_child)

(* C5, as the finite part of the liveness claim: an opened valve of sensor *)
(* s stops being pending, in a step that is not Data of s itself, only if  *)
(* that step transmits Command(Close) for s; otherwise no later sweep can  *)
(* ever close it.                                                          *)
C5_CloseFollowsOpen ==
  [][\A s \in SensorIds :
       (/\ OpenPending(sensors, s)
        /\ ~OpenPending(sensors', s)
        /\ ~(ev'.op = "recv" /\ IsData(ev'.msg) /\ B(ev'.msg, 1) = s))
       => CloseSent(out', s)]_vars

(* C6: a Data packet that brings a record whose valve is closed to two or  *)
(* more readings with |slope| above the threshold makes the relay transmit *)
(* Command(Open) for the sensor and mark the valve open as of now.         *)
C6_OpenOnSteepSlope ==
  [][(Relay /\ ev'.op = "recv" /\ ev'.src # node_id /\ IsData(ev'.msg)) =>
       LET s == B(ev'.msg, 1)
           j == find_sensor(sensors, s)
           i == find_sensor(sensors', s)
       IN (/\ j # 0
           /\ i # 0
           /\ ~sensors[j].valve_open
           /\ Len(sensors'[i].readings) >= 2
           /\ Steep(sensors'[i].readings))
          => /\ OpenSent(out', s)
             /\ sensors'[i].valve_open
             /\ sensors'[i].valve_open_time = now']_vars

----------------------------------------------------------------------------
(* Route table capacity (SpecRoutes) *)

(* C8: the table never exceeds MAX_ROUTES entries, and an update for a new *)
(* destination that finds the table full leaves every entry as it was.     *)
C8_RouteTableBound ==
  [][/\ Len(routing_table') <= MAX_ROUTES
     /\ (ev'.op = "update_route" /\ Len(routing_table) = MAX_ROUTES
           /\ ~HasRoute(routing_table, ev'.msg[1]))
        => routing_table' = routing_table]_vars

(* C8 witness: the table is full and the last update named a destination   *)
(* that has no entry.                                                      *)
C8_Witness ==
  /\ ev.op = "update_route"
  /\ Len(routing_table) = MAX_ROUTES
  /\ ~HasRoute(routing_table, ev.msg[1])

----------------------------------------------------------------------------
(* Reading buffer and slope (SpecBuffer) *)

Min(a, b) == IF a < b THEN a ELSE b

(* C11: after k readings the record holds the most recent min(k, 30) of    *)
(* them in arrival order, so that a full buffer loses exactly its oldest   *)
(* reading on the next append.                                             *)
C11_RingBuffer ==
  LET k == Len(hist)
      c == Min(k, MAX_SENSOR_READINGS)
  IN /\ Len(sensors[1].readings) = c
     /\ sensors[1].readings = SubSeq(hist, k - c + 1, k)

(* C11 witness: a reading has just been appended to a full buffer whose    *)
(* oldest reading was a different value from the one that followed it.     *)
C11_Witness ==
  /\ ev.op = "add_reading"
  /\ Len(hist) > MAX_SENSOR_READINGS + 1
  /\ hist[1] # hist[2]

Arithmetic(r, d) == Len(r) >= 2 /\ \A i \in 2..Len(r) : r[i] - r[i - 1] = d

(* C12: calculate_slope of a buffer whose readings form an arithmetic      *)
(* sequence with common difference d returns d (0 for a constant one),     *)
(* whatever the timestamps of the readings.                                *)
C12_SlopeOfArithmetic ==
  ev.op = "calculate_slope" =>
    \A d \in {0 - 10, 0, 10} :
       Arithmetic(sensors[1].readings, d) => ret.num = d * ret.den

----------------------------------------------------------------------------
(* Sensor table capacity and aging (SpecTable) *)

AtCapacity(S) == Len(S) = MAX_SENSOR_NODES /\ \A i \in 1..Len(S) : S[i].active

DataFromUnknown ==
  /\ Relay /\ ev'.op = "recv" /\ ev'.src # node_id /\ IsData(ev'.msg)
  /\ find_sensor(sensors, B(ev'.msg, 1)) = 0

(* C13: Data of a source without a record, arriving while all five slots   *)
(* hold active records, leaves the table as it was and is sent to the      *)
(* parent with exactly the bytes received.                                 *)
C13_ForwardAtCapacity ==
  [][(DataFromUnknown /\ AtCapacity(sensors) /\ HasParent) =>
       /\ sensors' = sensors
       /\ out' = << Tx(U8(parent_id), ev'.msg) >>]_vars

(* C14: while some slot is inactive, Data of a source without an active    *)
(* record creates that source's record in a recycled slot, also when all   *)
(* five slots have been used.                                              *)
C14_InactiveSlotReused ==
  [][(DataFromUnknown /\ \E i \in 1..Len(sensors) : ~sensors[i].active) =>
       /\ find_sensor(sensors', B(ev'.msg, 1)) # 0
       /\ Len(sensors') = Len(sensors)]_vars

(* C15: a cleanup sweep leaves a record active exactly when it was active  *)
(* and now - last_update does not exceed 600 seconds.                      *)
C15_InactiveAfter600 ==
  [][ev'.op = "cleanup" =>
       \A i \in 1..Len(sensors) :
          sensors'[i].active =
            (sensors[i].active /\ now - sensors[i].last_update <= INACTIVE_THRESHOLD_SECONDS)]_vars

----------------------------------------------------------------------------
Leaf == prog \in Leaves

(* C16: a leaf's sampling timer transmits a Data message only while the    *)
(* leaf has a parent; with no parent an expiry transmits nothing.          *)
C16_NoDataWithoutParent ==
  [][(Leaf /\ ev'.op = "data_timer" /\ ~HasParent) => out' = << >>]_vars

CommandReceived ==
  Leaf /\ ev'.op = "recv" /\ ev'.src # node_id /\ IsCommand(ev'.msg)

Actuated == leds' = (B(ev'.msg, 2) = 1) /\ out' = << >>

(* the targets a leaf image takes for itself besides its own id *)
Wildcard(t) == prog = "SN" /\ t \in {0, 255}

(* C17 as stated: a Command whose target_id is the receiving node's id     *)
(* sets the actuator to the commanded state and causes no transmission; a  *)
(* Command for any other target never changes the actuator.                *)
C17_OnlyOwnTargetActuates ==
  [][CommandReceived =>
       IF B(ev'.msg, 1) = node_id THEN Actuated ELSE leds' = leds]_vars

(* C17 amended: a Command received from another node whose target_id is    *)
(* the node's id, or in sensor-node.c the wildcard 0 or 255, sets the      *)
(* actuator to the commanded state (open iff the command byte is 1) and    *)
(* causes no transmission; a Command for any other target never changes    *)
(* the actuator.                                                           *)
C17_OwnOrWildcardActuates ==
  [][CommandReceived =>
       IF B(ev'.msg, 1) = node_id \/ Wildcard(B(ev'.msg, 1))
       THEN Actuated ELSE leds' = leds]_vars

C17_Witness ==
  /\ Leaf /\ ev.op = "recv" /\ ev.src # node_id /\ IsCommand(ev.msg)
  /\ B(ev.msg, 1) = node_id /\ B(ev.msg, 2) = 1 /\ leds /\ out = << >>
  /\ parent_id # NO_PARENT

----------------------------------------------------------------------------
MinLength(msg_type) == IF msg_type = 3 THEN 6 ELSE 4

Undecodable(msg) ==
  \/ Len(msg) = 0
  \/ B(msg, 0) \notin {1, 3, 4}
  \/ Len(msg) < MinLength(B(msg, 0))

(* C18: a message received by a relay that is empty, of an unrecognized   *)
(* type, or shorter than its type's minimum length is dropped with no      *)
(* effect: the parent/hop state, route table, child set and sensor records *)
(* are unchanged and nothing is transmitted.                               *)
C18_UndecodableDropped ==
  [][(Relay /\ ev'.op = "recv" /\ Undecodable(ev'.msg)) =>
        /\ parent_id' = parent_id
        /\ hop_to_root' = hop_to_root
        /\ routing_table' = routing_table
        /\ children' = children
        /\ sensors' = sensors
        /\ out' = << >>]_vars

(* C19: on a Discovery from another node, a non-root node adopts the       *)
(* sender iff sender_hop < hop_to_root, or sender_hop = hop_to_root and    *)
(* sender_energy > own energy; on adoption parent_id = sender and          *)
(* hop_to_root = sender_hop + 1, otherwise both are unchanged.             *)
C19_AdoptionRule ==
  [][(Relay /\ ev'.op = "recv" /\ ev'.src # node_id /\ IsDiscovery(ev'.msg)) =>
        LET sender        == B(ev'.msg, 1)
            sender_hop    == B(ev'.msg, 2)
            sender_energy == B(ev'.msg, 3)
        IN IF \/ sender_hop < hop_to_root
              \/ (sender_hop = hop_to_root /\ sender_energy > ENERGY_BYTE)
           THEN parent_id' = sender /\ hop_to_root' = sender_hop + 1
           ELSE parent_id' = parent_id /\ hop_to_root' = hop_to_root]_vars

----------------------------------------------------------------------------
(* C21: the root is the only node whose hop_to_root is 0: whatever         *)
(* Discovery messages arrive (hop 0xFF and 0xFE included), a non-root node *)
(* never holds, and so never advertises, hop_to_root = 0.                  *)
C21_OnlyRootHopZero == prog # "BR" => hop_to_root # 0

----------------------------------------------------------------------------
(* SpecValve: a relay that aggregates sensor 3 while the operator's         *)
(* explicit Open and Close commands for sensor 3 pass through it.           *)

ValveValues == {10, 30}

ValveDeliveries ==
  {<<1, Discovery(1, 0, ENERGY_BYTE)>>}
    \cup {<<3, Data(3, v)>> : v \in ValveValues}
    \cup {<<1, Command(3, c)>> : c \in {0, 1}}

InitValve == \E p \in {"CN", "CH"} : InitNode(p)

NextValve ==
  \/ \E d \in ValveDeliveries : (~IsDiscovery(d[2]) \/ now = 0) /\ Receive(d[1], d[2], 0)
  \/ ValveTimer
  \/ Tick(TickStep)

SpecValve == InitValve /\ [][NextValve]_vars

(* an explicit Close for the source of an active record whose valve is open *)
ExplicitClose(i) ==
  /\ Relay /\ ev'.op = "recv" /\ ev'.src # node_id
  /\ IsCommand(ev'.msg) /\ B(ev'.msg, 2) = 0
  /\ i \in 1..Len(sensors)
  /\ sensors[i].sensor_id = B(ev'.msg, 1) /\ sensors[i].active /\ sensors[i].valve_open

(* C22: when a relay processes an explicit Command(Close) for a source     *)
(* whose record has valve_open = true, valve_open is cleared at that       *)
(* moment, so the valve sweep emits no further Close for that opening.     *)
C22_ExplicitCloseCancels ==
  [][\A i \in 1..MAX_SENSOR_NODES : ExplicitClose(i) => ~sensors'[i].valve_open]_vars

----------------------------------------------------------------------------
Root == prog \in Roots

DataLines(o) == {k \in 1..Len(o) : o[k].kind = "DATA"}

(* what a DATA line says: the decimal fields of part_001, or the message   *)
(* bytes part_000 prints in hex                                            *)
Carries(line, sensor_id, value) ==
  IF "bytes" \in DOMAIN line
  THEN /\ Len(line.bytes) >= 6
       /\ B(line.bytes, 1) = sensor_id
       /\ B(line.bytes, 4) * 256 + B(line.bytes, 5) = value
  ELSE line.sensor_id = sensor_id /\ line.value = value

(* C23: for every Data message the root accepts (another source, at least  *)
(* 6 bytes) exactly one DATA line carrying its sensor id and value is      *)
(* written to the operator link; no DATA line is written for anything else. *)
C23_OneDataLinePerData ==
  [][Root =>
       IF ev'.op = "recv" /\ ev'.src # node_id /\ IsData(ev'.msg)
       THEN /\ Cardinality(DataLines(oplink')) = 1
            /\ \A k \in DataLines(oplink') :
                  Carries(oplink'[k], B(ev'.msg, 1), DataValue(ev'.msg))
       ELSE DataLines(oplink') = {}]_vars

C23_Witness ==
  /\ Root /\ Received /\ ev.src # node_id /\ IsData(ev.msg)
  /\ B(ev.msg, 1) # ev.src
  /\ Cardinality(DataLines(oplink)) = 1

AllDigits(tok) == tok # << >> /\ \A i \in 1..Len(tok) : IsDigit(tok[i])

(* COMMAND <sensor_id> <0|1> <duration_seconds> *)
WellFormedCommand(line) ==
  LET tok == strtok(line)
  IN /\ Len(tok) = 4
     /\ tok[1] = COMMAND_KEYWORD
     /\ AllDigits(tok[2])
     /\ tok[3] \in {<<"0">>, <<"1">>}
     /\ AllDigits(tok[4])

(* C24: an operator line that is not a well-formed                         *)
(* COMMAND <sensor_id> <0|1> <duration_seconds> is ignored at the root:    *)
(* nothing is transmitted and no state changes.                            *)
C24_MalformedLineIgnored ==
  [][(Root /\ ev'.op = "serial" /\ ~WellFormedCommand(ev'.msg)) =>
        /\ out' = << >>
        /\ UNCHANGED <<parent_id, hop_to_root, routing_table, children, sensors>>]_vars

----------------------------------------------------------------------------
(* the node reached from n by following parent_id k times, 0 once the walk *)
(* leaves the network (no parent)                                          *)
RECURSIVE Ancestor(_, _)
Ancestor(n, k) ==
  IF k = 0 THEN n
  ELSE LET a == Ancestor(n, k - 1)
       IN IF a \in NetNodes /\ net[a].parent_id \in NetNodes THEN net[a].parent_id ELSE 0

(* C25: in every reachable state of a network of one root and several      *)
(* non-root nodes the parent pointers have no cycle: following parent_id   *)
(* from a node never returns to that node.                                 *)
C25_NoParentCycle ==
  \A n \in NetNodes : \A k \in 1..NumNodes : Ancestor(n, k) # n

----------------------------------------------------------------------------
NoDuplicates(C) == \A i \in 1..Len(C) : \A j \in 1..Len(C) : C[i] = C[j] => i = j

(* C26: after any sequence of add_child calls the child set holds at most  *)
(* MAX_CHILDREN = 10 ids and no id twice; inserting an id already present, *)
(* or any id into a full set, leaves the set unchanged.                    *)
C26_ChildSetBounded ==
  [][ev'.op = "add_child" =>
        /\ Len(children') <= MAX_CHILDREN
        /\ NoDuplicates(children')
        /\ (InSeq(children, ev'.msg[1]) \/ Len(children) = MAX_CHILDREN) => children' = children]_vars

C26_Witness ==
  /\ ev.op = "add_child"
  /\ Len(children) = MAX_CHILDREN
  /\ ~InSeq(children, ev.msg[1])

----------------------------------------------------------------------------
(* a Discovery from another node that advertises a hop above the           *)
(* receiver's hop_to_root                                                  *)
FartherDiscovery ==
  /\ ev'.op = "recv" /\ ev'.src # node_id /\ IsDiscovery(ev'.msg)
  /\ B(ev'.msg, 2) > hop_to_root

(* C27: an id enters the child set only through a Discovery whose          *)
(* advertised hop is strictly greater than the receiver's hop_to_root, and *)
(* every such Discovery inserts its sender while capacity remains; the     *)
(* root does not record a sender advertising hop 0.                        *)
C27_ChildOnlyIfFarther ==
  [][/\ \A i \in 1..Len(children') :
          ~InSeq(children, children'[i]) => FartherDiscovery /\ children'[i] = ev'.src
     /\ (FartherDiscovery /\ prog \in {"CH", "BR"} /\ Len(children) < MAX_CHILDREN)
          => InSeq(children', ev'.src)]_vars

----------------------------------------------------------------------------
(* C28: the valve sweep emits Command(Close) for a sensor only if its      *)
(* record is active, has valve_open = true and was opened at least         *)
(* VALVE_DURATION ago; never earlier, never for an inactive record or a    *)
(* record whose valve is not open.                                         *)
C28_SweepClosesOnlyDue ==
  [][ev'.op = "valve" =>
       \A s \in SensorIds :
          CloseSent(out', s) =>
            \E i \in 1..Len(sensors) :
               /\ sensors[i].sensor_id = s
               /\ sensors[i].active
               /\ sensors[i].valve_open
               /\ now - sensors[i].valve_open_time >= VALVE_DURATION]_vars

----------------------------------------------------------------------------
(* Data of a sensor whose only records are deactivated ones *)
DataAfterDeactivation ==
  /\ DataFromUnknown
  /\ \E i \in 1..Len(sensors) : sensors[i].sensor_id = B(ev'.msg, 1) /\ ~sensors[i].active

(* C29: find_sensor never returns an inactive record; after the sweep has  *)
(* deactivated the record of sensor s, a later Data of s starts a fresh    *)
(* record (only the new reading, valve closed) instead of extending the    *)
(* old buffer; the sweep itself leaves the slot's contents in place.       *)
C29_FreshRecordAfterDeactivation ==
  [][/\ \A i \in 1..Len(sensors') :
          find_sensor(sensors', sensors'[i].sensor_id) # 0
            => sensors'[find_sensor(sensors', sensors'[i].sensor_id)].active
     /\ ev'.op = "cleanup" =>
          \A i \in 1..Len(sensors) :
             sensors'[i] = [sensors[i] EXCEPT !.active = sensors'[i].active]
     /\ DataAfterDeactivation =>
          \E j \in 1..Len(sensors') :
             /\ sensors'[j].sensor_id = B(ev'.msg, 1)
             /\ sensors'[j].active
             /\ sensors'[j].readings = << DataValue(ev'.msg) >>
             /\ ~sensors'[j].valve_open]_vars

----------------------------------------------------------------------------
(* C30: a received Discovery only updates the receiver's local state       *)
(* (parent/hop, child set, route table); the receiver transmits nothing,   *)
(* so a Discovery is never forwarded beyond one hop.                       *)
C30_DiscoveryNotForwarded ==
  [][(ev'.op = "recv" /\ Len(ev'.msg) >= 1 /\ B(ev'.msg, 0) = 1) =>
        /\ out' = << >>
        /\ oplink' = << >>
        /\ sensors' = sensors]_vars

C30_Witness ==
  /\ Received /\ IsDiscovery(ev.msg) /\ ev.src # node_id
  /\ prog = "CN" /\ parent_id = ev.src /\ HasRoute(routing_table, ev.src)
  /\ out = << >>

----------------------------------------------------------------------------
(* SpecLoop: a network of the root (node 1, held in net[1]) and one relay   *)
(* (node 2, held in the node variables), both in radio range of each       *)
(* other.  A transmission stays on the air until the radio delivers it: a  *)
(* broadcast to the other node, a unicast to the node it names (nullnet    *)
(* hands a frame to receive_callback only on the addressed node).  The     *)
(* nodes exchange Discovery, then the operator injects one Command at the  *)
(* root.                                                                   *)

LoopRoot(p, C, T) == [prog |-> p, children |-> C, routing_table |-> T]

OnAir(src, txs) ==
  [k \in 1..Len(txs) |-> [src |-> src, dst |-> txs[k].dst, bytes |-> txs[k].bytes]]

RootDone(R, o) == [root |-> R, out |-> o]

(* receive_callback of the root on its record: part_001:172-233 and        *)
(* part_000:529-560 (the lines a Data message prints are not kept here)    *)
root_receive(R, src, msg) ==
  IF Len(msg) = 0 THEN RootDone(R, << >>)
  ELSE IF src = BORDER_ROUTER_ID THEN RootDone(R, << >>)
  ELSE LET msg_type == B(msg, 0)
       IN IF R.prog = "BR"
          THEN IF msg_type = 1
               THEN RootDone([R EXCEPT !.children = add_child(R.children, src)], << >>)
               ELSE IF msg_type = 4 /\ Len(msg) >= 4 /\ B(msg, 1) # BORDER_ROUTER_ID
               THEN LET child == br_find_child(R.children, B(msg, 1))
                    IN IF child # 255 THEN RootDone(R, << Tx(child, msg) >>)
                       ELSE RootDone(R, << Tx(NULL_ADDR, msg) >>)
               ELSE RootDone(R, << >>)
          ELSE IF msg_type = 3 /\ Len(msg) >= 6
               THEN RootDone([R EXCEPT !.routing_table =
                                BO_update_route(R.routing_table, B(msg, 1), src, 1, now)], << >>)
               ELSE IF msg_type = 1 /\ Len(msg) >= 4
               THEN RootDone([R EXCEPT !.routing_table =
                                BO_update_route(R.routing_table, B(msg, 1), src,
                                                U8(B(msg, 2) + 1), now)], << >>)
               ELSE IF msg_type = 4 /\ Len(msg) >= 4
               THEN RootDone(R, BO_forward_command(R.routing_table, B(msg, 1), B(msg, 2)))
               ELSE RootDone(R, << >>)

(* the Command the root transmits for the operator's line "COMMAND t c":   *)
(* part_001:155-168, part_000:425-433                                      *)
root_serial(R, sensor_id, command) ==
  IF R.prog = "BR"
  THEN LET child == br_find_child(R.children, sensor_id)
       IN IF child = 255 THEN << Tx(NULL_ADDR, CmdMsg(sensor_id, command)) >>
          ELSE << Tx(child, CmdMsg(sensor_id, command)) >>
  ELSE BO_forward_command(R.routing_table, sensor_id, command)

LoopTargets == {RELAY_NODE_ID, 3, 9}
LoopCommands == {0, 1}

(* the operator's Command has been injected *)
Injected == ev.op = "inject" \/ (ev.op = "deliver" /\ IsCommand(ev.msg))

InitLoop ==
  /\ prog \in {"CN", "CH"}
  /\ parent_id = (IF prog \in WideParent THEN CN_NO_PARENT ELSE CH_NO_PARENT)
  /\ hop_to_root = 255
  /\ routing_table = << >>
  /\ children = << >>
  /\ sensors = << >>
  /\ now = 0
  /\ out = << >>
  /\ oplink = << >>
  /\ ev = Event("init", 0, << >>)
  /\ leds = FALSE
  /\ air = << >>
  /\ net \in {<< LoopRoot(p, << >>, << >>) >> : p \in Roots}
  /\ ret = << >>
  /\ hist = << >>

(* the root's discovery timer: part_001:83-97, part_000:442-456 *)
RootDiscovery ==
  /\ air = << >> /\ ~Injected
  /\ air' = OnAir(BORDER_ROUTER_ID, << Tx(NULL_ADDR, Discovery(BORDER_ROUTER_ID, 0, ENERGY_BYTE)) >>)
  /\ ev' = Event("beacon", BORDER_ROUTER_ID, Discovery(BORDER_ROUTER_ID, 0, ENERGY_BYTE))
  /\ UNCHANGED <<net, leds, ret, hist, prog, parent_id, hop_to_root, routing_table, children,
                 sensors, now, out, oplink>>

(* the relay's discovery timer *)
RelayDiscovery ==
  /\ air = << >> /\ ~Injected
  /\ air' = OnAir(node_id, send_discovery)
  /\ out' = send_discovery
  /\ oplink' = << >>
  /\ ev' = Event("discovery", 0, << >>)
  /\ UNCHANGED <<net, leds, ret, hist, prog, parent_id, hop_to_root, routing_table, children,
                 sensors, now>>

(* the operator's line reaches the root, which transmits the Command *)
Inject(t, c) ==
  /\ air = << >> /\ ~Injected
  /\ air' = OnAir(BORDER_ROUTER_ID, root_serial(net[1], t, c))
  /\ ev' = Event("inject", BORDER_ROUTER_ID, CmdMsg(t, c))
  /\ UNCHANGED <<net, leds, ret, hist, prog, parent_id, hop_to_root, routing_table, children,
                 sensors, now, out, oplink>>

(* the radio delivers the oldest transmission and the receiver's           *)
(* receive_callback runs; what it transmits joins the air                  *)
Deliver ==
  /\ air # << >>
  /\ LET p == Head(air)
     IN IF p.src = BORDER_ROUTER_ID /\ p.dst \in {NULL_ADDR, node_id}
        THEN /\ \E r \in {receive_callback(p.src, p.bytes, 0)} :
                   /\ parent_id' = r.parent_id
                   /\ hop_to_root' = r.hop_to_root
                   /\ routing_table' = r.routing_table
                   /\ children' = r.children
                   /\ sensors' = r.sensors
                   /\ out' = r.out
                   /\ oplink' = r.oplink
                   /\ air' = Tail(air) \o OnAir(node_id, r.out)
             /\ UNCHANGED net
        ELSE IF p.src = node_id /\ p.dst \in {NULL_ADDR, BORDER_ROUTER_ID}
        THEN /\ \E rr \in {root_receive(net[1], p.src, p.bytes)} :
                   /\ net' = << rr.root >>
                   /\ air' = Tail(air) \o OnAir(BORDER_ROUTER_ID, rr.out)
             /\ UNCHANGED <<parent_id, hop_to_root, routing_table, children, sensors,
                            out, oplink>>
        ELSE /\ air' = Tail(air)
             /\ UNCHANGED <<net, parent_id, hop_to_root, routing_table, children, sensors,
                            out, oplink>>
  /\ ev' = Event("deliver", Head(air).src, Head(air).bytes)
  /\ UNCHANGED <<leds, ret, hist, prog, now>>

NextLoop ==
  \/ RootDiscovery
  \/ RelayDiscovery
  \/ \E t \in LoopTargets, c \in LoopCommands : Inject(t, c)
  \/ Deliver

(* every transmission is delivered (no radio loss) and its handler runs *)
SpecLoop == InitLoop /\ [][NextLoop]_vars /\ WF_vars(Deliver)

(* no node holds t as a child or as the destination of a route *)
UnknownTarget(t) ==
  /\ ~IsChild(t) /\ ~HasRoute(routing_table, t)
  /\ ~InSeq(net[1].children, t) /\ ~HasRoute(net[1].routing_table, t)

(* C31: a Command injected at the root for a target that no node has as a  *)
(* child or a route is transmitted finitely many times: the air eventually *)
(* empties and (only deliveries follow an injection) stays empty.          *)
C31_CommandForwardingTerminates ==
  (ev.op = "inject" /\ UnknownTarget(B(ev.msg, 1))) ~> (air = << >>)

----------------------------------------------------------------------------
(* C32: in every reachable state of a non-root node, the current parent is *)
(* not a member of the node's child list.                                  *)
C32_ParentNotChild ==
  (prog \notin Roots /\ HasParent) => ~InSeq(children, parent_id)

----------------------------------------------------------------------------
(* the reserved id that stands for "no parent": 0xFF, or 0xFFFF before it  *)
(* is narrowed to the one-byte link address                                *)
NoneId(d) == d = CH_NO_PARENT \/ d = CN_NO_PARENT

(* C33: a relay without a parent that handles a received message hands no  *)
(* unicast addressed to the reserved "none" id to the radio.               *)
C33_NoUnicastToNone ==
  (Relay /\ Received /\ ~HasParent) => \A k \in 1..Len(out) : ~NoneId(out[k].dst)

----------------------------------------------------------------------------
(* SpecOpen: a relay that tracks sensor 4.  The readings of sensor 4 reach *)
(* it straight from the sensor and through its neighbour 3, before or      *)
(* after it has heard the root; Commands for sensor 4 pass through it, and *)
(* some Data and Command packets carry more bytes than their format.       *)

(* part_005:151 data_msg[6] and part_005:164 cmd_msg[4] *)
DATA_MSG_SIZE == 6
CMD_MSG_SIZE == 4

OpenValues == {10, 30}

OpenDeliveries ==
  {<<1, Discovery(1, 0, ENERGY_BYTE)>>}
    \cup {<<s, Data(4, v)>> : s \in {3, 4}, v \in OpenValues}
    \cup {<<1, Command(4, 1)>>, <<1, Command(4, 1) \o <<9>> >>,
          <<3, Data(4, 30) \o <<7>> >>}

(* the staging buffer a forwarded packet went through (part_005 only:      *)
(* forward_data for Data, forward_command for a unicast Command); 0 when   *)
(* the packet was handed to the radio from where it lay                    *)
StagingSize(tx) ==
  IF prog # "CH" THEN 0
  ELSE IF B(tx.bytes, 0) = 3 THEN DATA_MSG_SIZE
  ELSE IF B(tx.bytes, 0) = 4 /\ tx.dst # NULL_ADDR THEN CMD_MSG_SIZE
  ELSE 0

(* memcpy wrote past the end of a staging buffer: from here on the program *)
(* has no defined behaviour                                                *)
Overflowed ==
  Received /\ \E k \in 1..Len(out) :
                 StagingSize(out[k]) # 0 /\ Len(out[k].bytes) > StagingSize(out[k])

InitOpen == \E p \in {"CN", "CH"} : InitNode(p)

NextOpen ==
  \E d \in OpenDeliveries : ~Overflowed /\ Receive(d[1], d[2], 0)

SpecOpen == InitOpen /\ [][NextOpen]_vars

(* C34: the valve_open of a record becomes true only in a step that        *)
(* transmits Command(Open) for the record's sensor.                        *)
C34_OpenOnlyWithCommand ==
  [][\A i \in 1..Len(sensors') :
       (/\ Relay
        /\ sensors'[i].valve_open
        /\ ~(i <= Len(sensors) /\ sensors[i].valve_open
                               /\ sensors[i].sensor_id = sensors'[i].sensor_id))
       => OpenSent(out', sensors'[i].sensor_id)]_vars

----------------------------------------------------------------------------
(* the packets of o that carry the reading of Data message msg to dst *)
DataForwarded(o, dst, msg) ==
  \E k \in 1..Len(o) :
     /\ o[k].dst = dst /\ IsData(o[k].bytes)
     /\ B(o[k].bytes, 1) = B(msg, 1) /\ DataValue(o[k].bytes) = DataValue(msg)

(* C35: a relay with a parent that accepts a Data message into its sensor  *)
(* table (the source has an active record after the step) forwards that    *)
(* reading to its parent in the same step, the first reading of a new      *)
(* record included.                                                        *)
C35_AcceptedDataForwarded ==
  (/\ Relay /\ Received /\ IsData(ev.msg) /\ ev.src # node_id
   /\ HasParent
   /\ find_sensor(sensors, B(ev.msg, 1)) # 0)
  => DataForwarded(out, U8(parent_id), ev.msg)

----------------------------------------------------------------------------
(* C36: in every reachable state of a relay the sensor table uses at most  *)
(* MAX_SENSOR_NODES slots and holds at most one active record per sensor   *)
(* id.                                                                     *)
C36_TableBoundedOneActive ==
  Relay =>
    /\ Len(sensors) <= MAX_SENSOR_NODES
    /\ \A i \in 1..Len(sensors) : \A j \in 1..Len(sensors) :
          (/\ sensors[i].active /\ sensors[j].active
           /\ sensors[i].sensor_id = sensors[j].sensor_id) => i = j

(* all five slots used, the fifth by a sensor heard after start-up, some   *)
(* slot made inactive by a sweep, and Data of a further sensor just        *)
(* received and left without a record                                      *)
C36_Witness ==
  /\ Relay /\ Received /\ IsData(ev.msg)
  /\ Len(sensors) = MAX_SENSOR_NODES
  /\ find_sensor(sensors, B(ev.msg, 1)) = 0
  /\ \E i \in 1..Len(sensors) : ~sensors[i].active
  /\ sensors[MAX_SENSOR_NODES].active

----------------------------------------------------------------------------
(* C37: every packet a node forwards through a staging buffer was copied   *)
(* with a length that fits the buffer: at most DATA_MSG_SIZE bytes for     *)
(* Data and at most CMD_MSG_SIZE bytes for a Command.                      *)
C37_CopyFitsBuffer ==
  Received =>
    \A k \in 1..Len(out) :
       StagingSize(out[k]) # 0 => Len(out[k].bytes) <= StagingSize(out[k])

----------------------------------------------------------------------------
(* C38: when a Data message makes the relay (computation-node.c) send      *)
(* Command(Open) for its source, the unicast copy of that Command is       *)
(* addressed to the neighbour the Data message came from.                  *)
C38_OpenToDataNeighbour ==
  (/\ prog = "CN" /\ Received /\ IsData(ev.msg)
   /\ OpenSent(out, B(ev.msg, 1)))
  => out[1] = Tx(ev.src, CmdMsg(B(ev.msg, 1), 1))

====
